---- MODULE Spec2Model ----
(***************************************************************************)
(* The speech-synchronized transcript reveal engine of                     *)
(* src/hooks/useStreamingTranscript.ts (the useStreamingTranscript hook)   *)
(* and the callbacks ConversationView wires to it.                         *)
(*                                                                         *)
(* Texts are sequences of characters.  Wall-clock time (Date.now()) is in  *)
(* whole milliseconds; audio durations and timer deadlines are floats in   *)
(* the code and are kept exactly here as fixed-point numbers in units of   *)
(* 1/MsScale ms (see durationMs).                                          *)
(*                                                                         *)
(* React state updates (setMessages with an updater function) are applied  *)
(* in the order they are queued; each handler's update is applied within   *)
(* the handler's action.                                                   *)
(***************************************************************************)
EXTENDS Integers, Sequences, FiniteSets, TLC

VARIABLES
    messages,            \* useState<Message[]>: the transcript
    speechStartTimeRef,  \* ms; 0 = not set
    cumulativeAudioMsRef,\* fixed point, 1/MsScale ms
    pendingTimersRef,    \* the timers set and neither fired nor cleared
    fullAgentTextRef,    \* characters accumulated from alignment blocks
    agentMessageTextRef, \* ground truth from onMessage
    revealedIndexRef,    \* how many characters to display
    alignedCharCountRef, \* characters received from alignment this turn
    rafIdRef,            \* 0 = null, else the id of the pending animation frame
    frames,              \* animation frames requested and neither run nor cancelled
    now,                 \* Date.now(), ms
    \* history variables (no counterpart in the code; they only observe it)
    turnId,              \* number of the turn the per-turn refs belong to
    entry,               \* entry[i]: "user", or what became of the turn that last wrote
                         \* messages[i].text: "open", "final" (finalized) or "dead"
    reqMax,              \* largest reveal index requested so far in this turn
    stale,               \* signals of a turn destroyed by an interrupt may still arrive
    teardown,            \* the calls by which the last step tore the turn down, in
                         \* their order; <<>> when it did not tear the turn down
    \* ConversationView: the path of the audio to the avatar
    status,              \* useState<Status>
    anamReadyRef,        \* SESSION_READY was handled in this session
    audioBufferRef,      \* chunks waiting for SESSION_READY
    audioInputStreamRef, \* FALSE = null, TRUE = the avatar's audio input stream
    pc,                  \* where start() or stop() is suspended at an await; "none"
    anam,                \* the avatar client: "off", "starting", "ready"
    elevenlabs,          \* the voice session: "off", "live"
    \* history variables of the audio path
    arrived,             \* the chunks onAudio delivered in this session, in order
    sent,                \* the chunks passed to sendAudioChunk in this session, in order
    \* refs of the inline engine of ConversationView (the variant without the hook)
    streamingTextRef,    \* the text the timers have appended so far
    chunkAudioOffsetRef  \* cumulativeAudioMsRef before the latest chunk

vars == <<messages, speechStartTimeRef, cumulativeAudioMsRef, pendingTimersRef,
          fullAgentTextRef, agentMessageTextRef, revealedIndexRef,
          alignedCharCountRef, rafIdRef, frames, now, turnId, entry,
          reqMax, stale, teardown, status, anamReadyRef, audioBufferRef,
          audioInputStreamRef, pc, anam, elevenlabs, arrived, sent,
          streamingTextRef, chunkAudioOffsetRef>>

inlineRefs == <<streamingTextRef, chunkAudioOffsetRef>>

viewVars == <<status, anamReadyRef, audioBufferRef, audioInputStreamRef, pc, anam,
              elevenlabs, arrived, sent, inlineRefs>>

turnRefs == <<speechStartTimeRef, cumulativeAudioMsRef, fullAgentTextRef,
              agentMessageTextRef, revealedIndexRef, alignedCharCountRef>>

history == <<turnId, entry, reqMax, stale>>

-----------------------------------------------------------------------------
(* Bounds of the model *)

MaxAligned == 2     \* aligned characters per turn
MaxMsgs == 2        \* transcript entries
MaxTurns == 2       \* turns that receive signals
MaxAudio == 1       \* audio accounted per turn, in chunks of 100 ms
MaxTicks == 2       \* clock advances

MaxChunks == 2      \* audio events per turn, when audio and alignment come paired
OneTurnAligned == 3 \* aligned characters, when a single turn is followed
OneTurnMsgs == 3    \* transcript entries, when a single turn is followed
LifeAligned == 1    \* aligned characters, in the life of one turn
LifeMsgs == 2       \* transcript entries, in the life of one turn
ScenarioStepMs == 100 \* clock step of the "Hi there" scenario
ScenarioTicks == 10   \* clock advances of the "Hi there" scenario
MaxData == 6        \* data characters of a short payload
MaxPad == 4         \* trailing '=' characters of a short payload
AudioSpan == 64     \* |cumulativeAudioMs|, in 1/MsScale ms, when short payloads are accounted
MaxArrived == 3     \* audio chunks delivered in one session
MaxSessions == 2    \* sessions that receive audio
InlineChunks == 2   \* audio chunks the inline engine receives
InlineAligned == 3  \* aligned characters the inline engine receives
InlineMsgs == 2     \* transcript entries of the inline engine

(* Program constants *)

RENDER_DELAY_MS == 500
MsScale == 128      \* 4 (base64 quarter bytes) * 2 (bytes/sample) * 16 (samples/ms)

(* The environment *)

TickMs == 500       \* the clock advances in steps of TickMs
T0 == 1000          \* Date.now() when the session starts
CharMs == 200       \* spoken duration of one character in the alignment blocks

Max(a, b) == IF a >= b THEN a ELSE b
Min(a, b) == IF a <= b THEN a ELSE b

\* a base64 payload: n data characters followed by p '=' characters
Pay(n, p) == [i \in 1..(n + p) |-> IF i <= n THEN "A" ELSE "="]
\* 3200 bytes of PCM: 100 ms
Payloads == {Pay(4267, 1)}

\* short payloads, well-formed or not: "", "=", "====", "A===", "AAAAAA==", ...
ShortPayloads == {Pay(n, p) : n \in 0..MaxData, p \in 0..MaxPad}

Block(c) == [chars |-> c, char_start_times_ms |-> [i \in 1..Len(c) |-> (i - 1) * CharMs]]
Blocks == {Block(<<"a">>), Block(<<"a", "a">>)}
AgentMessages == {<<>>, <<"a">>, <<"b">>, <<"a", "a">>, <<"b", "b">>}
UserMessages == {<<"u">>}
Roles == {"user", "agent", "ai"}
AudioChunks == {Pay(4, 0), Pay(6, 2)}
InlineBlocks == {[chars |-> <<"a", "b">>, char_start_times_ms |-> <<0, CharMs>>],
                 [chars |-> <<"c">>, char_start_times_ms |-> <<0>>]}
Modes == {"listening", "speaking", "thinking"}

-----------------------------------------------------------------------------
(* Pure helpers *)

\* string.slice(0, n) for n >= 0
Slice(s, n) == SubSeq(s, 1, Min(n, Len(s)))

\* a || b on strings: the empty string is falsy
OrElse(a, b) == IF a # <<>> THEN a ELSE b

\* base64Audio.match(/=+$/): length of the trailing run of '='
RECURSIVE trailingPad(_, _)
trailingPad(s, i) == IF i >= 1 /\ s[i] = "=" THEN 1 + trailingPad(s, i - 1) ELSE 0
padding(s) == trailingPad(s, Len(s))

\* a duration computed from a byte count rounded down to whole bytes
durationMsFloored(base64Audio) ==
    4 * ((3 * Len(base64Audio)) \div 4 - padding(base64Audio))

\* a durationMs that does not subtract the padding
durationMsIgnoresPadding(base64Audio) == 3 * Len(base64Audio)

\* durationMs = ((length * 3) / 4 - padding) / 2 / 16000 * 1000, exactly,
\* in units of 1/MsScale ms: (3 * length - 4 * padding) / 128 ms
durationMs(base64Audio) == 3 * Len(base64Audio) - 4 * padding(base64Audio)

\* a getDisplayText that prefers the aligned text to the ground truth
getDisplayTextOfAlignedFirst(gt, aligned, idx) == Slice(OrElse(aligned, gt), idx)

getDisplayTextOf(gt, aligned, idx) == Slice(OrElse(gt, aligned), idx)
getDisplayText == getDisplayTextOf(agentMessageTextRef, fullAgentTextRef, revealedIndexRef)

Msg(r, t, i) == [role |-> r, text |-> t, interrupted |-> i]
LastIs(prev, r) == prev # <<>> /\ prev[Len(prev)].role = r
ReplaceLast(s, x) == [s EXCEPT ![Len(s)] = x]

\* a turn is open when any per-turn ref differs from its reset value
TurnOpen == \/ speechStartTimeRef # 0
            \/ cumulativeAudioMsRef # 0
            \/ fullAgentTextRef # <<>>
            \/ agentMessageTextRef # <<>>
            \/ revealedIndexRef # 0
            \/ alignedCharCountRef # 0

-----------------------------------------------------------------------------
(* Initial state: the hook as constructed (useState / useRef initial values) *)

Init ==
    /\ messages = <<>>
    /\ speechStartTimeRef = 0
    /\ cumulativeAudioMsRef = 0
    /\ pendingTimersRef = {}
    /\ fullAgentTextRef = <<>>
    /\ agentMessageTextRef = <<>>
    /\ revealedIndexRef = 0
    /\ alignedCharCountRef = 0
    /\ rafIdRef = 0
    /\ frames = 0
    /\ now = T0
    /\ turnId = 1
    /\ entry = <<>>
    /\ reqMax = 0
    /\ stale = FALSE
    /\ teardown = <<>>
    /\ status = "idle"
    /\ anamReadyRef = FALSE
    /\ audioBufferRef = <<>>
    /\ audioInputStreamRef = FALSE
    /\ pc = "none"
    /\ anam = "off"
    /\ elevenlabs = "off"
    /\ arrived = <<>>
    /\ sent = <<>>
    /\ streamingTextRef = <<>>
    /\ chunkAudioOffsetRef = 0

-----------------------------------------------------------------------------
(* Building blocks of the handlers *)

\* clearPendingTimers that forgets the pending animation frame
clearPendingTimersKeepsFrame ==
    /\ pendingTimersRef' = {}
    /\ UNCHANGED <<rafIdRef, frames>>

\* clearPendingTimers
clearPendingTimers ==
    /\ pendingTimersRef' = {}
    /\ frames' = IF rafIdRef # 0 THEN frames - 1 ELSE frames   \* cancelAnimationFrame
    /\ rafIdRef' = 0

\* a resetStreamingState that forgets the audio accumulator
resetStreamingStateKeepsAudio ==
    /\ fullAgentTextRef' = <<>>
    /\ agentMessageTextRef' = <<>>
    /\ UNCHANGED cumulativeAudioMsRef
    /\ speechStartTimeRef' = 0
    /\ revealedIndexRef' = 0
    /\ alignedCharCountRef' = 0
    /\ turnId' = IF TurnOpen THEN turnId + 1 ELSE turnId
    /\ reqMax' = 0

\* resetStreamingState; the turn, if one was open, is over
resetStreamingState ==
    /\ fullAgentTextRef' = <<>>
    /\ agentMessageTextRef' = <<>>
    /\ cumulativeAudioMsRef' = 0
    /\ speechStartTimeRef' = 0
    /\ revealedIndexRef' = 0
    /\ alignedCharCountRef' = 0
    /\ turnId' = IF TurnOpen THEN turnId + 1 ELSE turnId
    /\ reqMax' = 0

\* a scheduleTextUpdate that requests a frame whether or not one is pending
scheduleTextUpdateUnguarded ==
    /\ rafIdRef' = turnId
    /\ frames' = frames + 1

\* scheduleTextUpdate: at most one animation frame is pending; the frame's id
\* carries the number of the turn that requested it
scheduleTextUpdate ==
    IF rafIdRef # 0
    THEN UNCHANGED <<rafIdRef, frames>>
    ELSE /\ rafIdRef' = turnId
         /\ frames' = frames + 1

\* a display updater that concatenates the text to what the entry shows
displayUpdateConcatenates(prev, text) ==
    IF LastIs(prev, "agent") /\ ~prev[Len(prev)].interrupted
    THEN ReplaceLast(prev, [prev[Len(prev)] EXCEPT !.text = prev[Len(prev)].text \o text])
    ELSE Append(prev, Msg("agent", text, FALSE))

\* a display updater that does not look at the interrupted flag
displayUpdateIgnoresFlag(prev, text) ==
    IF LastIs(prev, "agent")
    THEN ReplaceLast(prev, [prev[Len(prev)] EXCEPT !.text = text])
    ELSE Append(prev, Msg("agent", text, FALSE))

\* the updater of scheduleTextUpdate's animation frame
displayUpdate(prev, text) ==
    IF LastIs(prev, "agent") /\ ~prev[Len(prev)].interrupted
    THEN ReplaceLast(prev, [prev[Len(prev)] EXCEPT !.text = text])
    ELSE Append(prev, Msg("agent", text, FALSE))

\* the updater of finalizeAgentMessage (run only when finalText is non-empty)
finalizeUpdate(prev, finalText) ==
    IF LastIs(prev, "agent") /\ ~prev[Len(prev)].interrupted
    THEN ReplaceLast(prev, [prev[Len(prev)] EXCEPT !.text = finalText])
    ELSE IF prev = <<>> \/ prev[Len(prev)].role # "agent"
         THEN Append(prev, Msg("agent", finalText, FALSE))
         ELSE prev

\* an interrupt updater that appends an entry even for an empty partial text
interruptUpdateAlwaysAppends(prev, partialText) ==
    IF LastIs(prev, "agent")
    THEN ReplaceLast(prev, [prev[Len(prev)] EXCEPT
                              !.text = OrElse(partialText, prev[Len(prev)].text),
                              !.interrupted = TRUE])
    ELSE Append(prev, Msg("agent", partialText, TRUE))

\* the updater of handleInterrupt
interruptUpdate(prev, partialText) ==
    IF LastIs(prev, "agent")
    THEN ReplaceLast(prev, [prev[Len(prev)] EXCEPT
                              !.text = OrElse(partialText, prev[Len(prev)].text),
                              !.interrupted = TRUE])
    ELSE IF partialText # <<>>
         THEN Append(prev, Msg("agent", partialText, TRUE))
         ELSE prev

\* entry after an updater of the open turn took prev to next; wrote: it replaced
\* the text of the last entry
entryAfter(prev, next, wrote) ==
    IF Len(next) > Len(prev) THEN Append(entry, "open")
    ELSE IF wrote THEN ReplaceLast(entry, "open")
    ELSE entry

\* entry after the open turn was torn down
closed(e, how) == [i \in 1..Len(e) |-> IF e[i] = "open" THEN how ELSE e[i]]

\* a revealAt that leaves out the audio offset
revealAtNoOffset(baseTime, audioOffset, charStartTime) ==
    (baseTime + charStartTime + RENDER_DELAY_MS) * MsScale

\* revealAt of handleAlignment, in 1/MsScale ms
revealAt(baseTime, audioOffset, charStartTime) ==
    (baseTime + charStartTime + RENDER_DELAY_MS) * MsScale + audioOffset

\* timers set at their deadline even when it has passed (a negative delay)
alignmentTimersUnclamped(baseTime, audioOffset, startIndex, block) ==
    { [charIndex |-> startIndex + i - 1,
       revealAt  |-> revealAt(baseTime, audioOffset, block.char_start_times_ms[i]),
       fireAt    |-> revealAt(baseTime, audioOffset, block.char_start_times_ms[i]),
       turn      |-> turnId] : i \in 1..Len(block.chars) }

\* the timers handleAlignment sets for one block; a timer fires at fireAt, the
\* time it was set plus its delay
alignmentTimers(baseTime, audioOffset, startIndex, block) ==
    { [charIndex |-> startIndex + i - 1,
       revealAt  |-> revealAt(baseTime, audioOffset, block.char_start_times_ms[i]),
       fireAt    |-> now * MsScale
                       + Max(0, revealAt(baseTime, audioOffset, block.char_start_times_ms[i])
                                  - now * MsScale),
       turn      |-> turnId] : i \in 1..Len(block.chars) }

\* a handleAlignment that numbers the characters of every block from 0
alignmentStepRestartsIndex(audioOffset, block) ==
    /\ speechStartTimeRef' = IF speechStartTimeRef = 0 THEN now ELSE speechStartTimeRef
    /\ fullAgentTextRef' = fullAgentTextRef \o block.chars
    /\ pendingTimersRef' = pendingTimersRef \cup
           alignmentTimers(speechStartTimeRef', audioOffset, 0, block)
    /\ alignedCharCountRef' = alignedCharCountRef + Len(block.chars)

\* a handleAlignment that takes the start of speech anew at every block
alignmentStepRestamps(audioOffset, block) ==
    /\ speechStartTimeRef' = now
    /\ fullAgentTextRef' = fullAgentTextRef \o block.chars
    /\ pendingTimersRef' = pendingTimersRef \cup
           alignmentTimers(speechStartTimeRef', audioOffset, alignedCharCountRef, block)
    /\ alignedCharCountRef' = alignedCharCountRef + Len(block.chars)

\* handleAlignment, with audioOffset the value it reads from cumulativeAudioMsRef
alignmentStep(audioOffset, block) ==
    /\ speechStartTimeRef' = IF speechStartTimeRef = 0 THEN now ELSE speechStartTimeRef
    /\ fullAgentTextRef' = fullAgentTextRef \o block.chars
    /\ pendingTimersRef' = pendingTimersRef \cup
           alignmentTimers(speechStartTimeRef', audioOffset, alignedCharCountRef, block)
    /\ alignedCharCountRef' = alignedCharCountRef + Len(block.chars)

\* a timer callback that advances the index and requests no display update
timerCallbackSilent(charIndex) ==
    IF charIndex + 1 > revealedIndexRef
    THEN /\ revealedIndexRef' = charIndex + 1
         /\ UNCHANGED <<rafIdRef, frames>>
    ELSE UNCHANGED <<revealedIndexRef, rafIdRef, frames>>

\* a timer callback that sets the index without the forward-only guard
timerCallbackUnguarded(charIndex) ==
    /\ revealedIndexRef' = charIndex + 1
    /\ scheduleTextUpdate

\* a timer callback that reveals one character too many
timerCallbackOffByOne(charIndex) ==
    IF charIndex + 2 > revealedIndexRef
    THEN /\ revealedIndexRef' = charIndex + 2
         /\ scheduleTextUpdate
    ELSE UNCHANGED <<revealedIndexRef, rafIdRef, frames>>

\* the callback of a reveal timer
timerCallback(charIndex) ==
    IF charIndex + 1 > revealedIndexRef
    THEN /\ revealedIndexRef' = charIndex + 1
         /\ scheduleTextUpdate
    ELSE UNCHANGED <<revealedIndexRef, rafIdRef, frames>>

\* a handleAgentMessage that fast-forwards without clearing the timers
agentMessageStepKeepsTimers(message) ==
    /\ agentMessageTextRef' = message
    /\ IF Len(message) > revealedIndexRef
       THEN /\ UNCHANGED pendingTimersRef
            /\ revealedIndexRef' = Len(message)
            /\ scheduleTextUpdate
       ELSE UNCHANGED <<pendingTimersRef, revealedIndexRef, rafIdRef, frames>>

\* the body of handleAgentMessage
agentMessageStep(message) ==
    /\ agentMessageTextRef' = message
    /\ IF Len(message) > revealedIndexRef
       THEN /\ pendingTimersRef' = {}
            /\ revealedIndexRef' = Len(message)
            \* clearPendingTimers, then scheduleTextUpdate
            /\ rafIdRef' = turnId
            /\ frames' = (IF rafIdRef # 0 THEN frames - 1 ELSE frames) + 1
       ELSE UNCHANGED <<pendingTimersRef, revealedIndexRef, rafIdRef, frames>>

-----------------------------------------------------------------------------
(* The handlers.  A signal is late when it belongs to a turn that an        *)
(* interrupt destroyed; signals arrive in order, so no late signal follows  *)
(* one that is not late.                                                    *)

\* addUserMessage (onMessage with role "user")
addUserMessage(text) ==
    /\ messages' = Append(messages, Msg("user", text, FALSE))
    /\ entry' = Append(entry, "user")
    /\ UNCHANGED <<turnRefs, pendingTimersRef, rafIdRef, frames, now, turnId, reqMax, stale>>
    /\ teardown' = <<>>
    /\ UNCHANGED viewVars

\* a handleAudioChunk that also records the start of speech
handleAudioChunkStartsTurn(base64Audio, late) ==
    /\ cumulativeAudioMsRef' = cumulativeAudioMsRef + durationMs(base64Audio)
    /\ speechStartTimeRef' = IF speechStartTimeRef = 0 THEN now ELSE speechStartTimeRef
    /\ stale' = late
    /\ UNCHANGED <<messages, pendingTimersRef, fullAgentTextRef,
                   agentMessageTextRef, revealedIndexRef, alignedCharCountRef, rafIdRef,
                   frames,
                   now, turnId, entry, reqMax>>
    /\ teardown' = <<>>

\* handleAudioChunk (onAudio)
handleAudioChunk(base64Audio, late) ==
    /\ cumulativeAudioMsRef' = cumulativeAudioMsRef + durationMs(base64Audio)
    /\ stale' = late
    /\ UNCHANGED <<messages, speechStartTimeRef, pendingTimersRef, fullAgentTextRef,
                   agentMessageTextRef, revealedIndexRef, alignedCharCountRef, rafIdRef,
                   frames,
                   now, turnId, entry, reqMax>>
    /\ teardown' = <<>>

\* handleAlignment (onAudioAlignment)
handleAlignment(block, late) ==
    /\ alignmentStep(cumulativeAudioMsRef, block)
    /\ stale' = late
    /\ UNCHANGED <<messages, cumulativeAudioMsRef, agentMessageTextRef, revealedIndexRef,
                   rafIdRef, frames, now, turnId, entry, reqMax>>
    /\ teardown' = <<>>
    /\ UNCHANGED viewVars

\* one audio event of the voice SDK: it carries an audio chunk and its
\* alignment block and runs onAudio and onAudioAlignment, in one order or the other
Orders == {"alignmentFirst", "audioFirst"}
audioEvent(base64Audio, block, order) ==
    /\ cumulativeAudioMsRef' = cumulativeAudioMsRef + durationMs(base64Audio)
    /\ alignmentStep(IF order = "audioFirst" THEN cumulativeAudioMsRef'
                                             ELSE cumulativeAudioMsRef, block)
    /\ stale' = FALSE
    /\ UNCHANGED <<messages, agentMessageTextRef, revealedIndexRef, rafIdRef, frames, now, turnId,
                   entry, reqMax>>
    /\ teardown' = <<>>
    /\ UNCHANGED viewVars

\* a reveal timer whose delay has elapsed runs its callback
timerFires(t) ==
    /\ t \in pendingTimersRef
    /\ now * MsScale >= t.fireAt
    /\ pendingTimersRef' = pendingTimersRef \ {t}
    /\ timerCallback(t.charIndex)
    /\ reqMax' = Max(reqMax, t.charIndex + 1)
    /\ UNCHANGED <<messages, speechStartTimeRef, cumulativeAudioMsRef, fullAgentTextRef,
                   agentMessageTextRef, alignedCharCountRef, now, turnId, entry, stale>>
    /\ teardown' = <<>>
    /\ UNCHANGED viewVars

\* the animation frame callback of scheduleTextUpdate
frameFires ==
    /\ frames > 0
    /\ frames' = frames - 1
    /\ rafIdRef' = 0
    /\ messages' = displayUpdate(messages, getDisplayText)
    /\ entry' = entryAfter(messages, messages',
                           LastIs(messages, "agent") /\ ~messages[Len(messages)].interrupted)
    /\ UNCHANGED <<turnRefs, pendingTimersRef, now, turnId, reqMax, stale>>
    /\ teardown' = <<>>
    /\ UNCHANGED viewVars

\* handleAgentMessage (onMessage with another role)
handleAgentMessage(message, late) ==
    /\ agentMessageStep(message)
    /\ reqMax' = IF Len(message) > revealedIndexRef THEN Max(reqMax, Len(message)) ELSE reqMax
    /\ stale' = late
    /\ UNCHANGED <<messages, speechStartTimeRef, cumulativeAudioMsRef, fullAgentTextRef,
                   alignedCharCountRef, now, turnId, entry>>
    /\ teardown' = <<>>
    /\ UNCHANGED viewVars

\* finalizeAgentMessage
finalText == OrElse(agentMessageTextRef, fullAgentTextRef)
finalizeAgentMessage ==
    /\ clearPendingTimers
    /\ messages' = IF finalText # <<>> THEN finalizeUpdate(messages, finalText) ELSE messages
    /\ entry' = closed(entryAfter(messages, messages',
                                  /\ finalText # <<>>
                                  /\ LastIs(messages, "agent")
                                  /\ ~messages[Len(messages)].interrupted), "final")
    /\ resetStreamingState
    /\ teardown' = <<"clearPendingTimers", "resetStreamingState">>

\* handleAgentDone (onModeChange with mode "listening")
handleAgentDone ==
    /\ finalizeAgentMessage
    /\ UNCHANGED <<now, stale>>
    /\ UNCHANGED viewVars

\* handleInterrupt (AnamEvent.TALK_STREAM_INTERRUPTED)
handleInterrupt ==
    /\ clearPendingTimers
    /\ resetStreamingState
    /\ messages' = interruptUpdate(messages, getDisplayText)
    /\ entry' = closed(entryAfter(messages, messages',
                                  LastIs(messages, "agent") /\ getDisplayText # <<>>), "dead")
    /\ stale' = (stale \/ TurnOpen)
    /\ UNCHANGED now
    /\ teardown' = <<"clearPendingTimers", "resetStreamingState">>
    /\ UNCHANGED viewVars

\* a reset that leaves the pending timers and the pending frame alone
resetKeepsTimers ==
    /\ messages' = <<>>
    /\ resetStreamingState
    /\ UNCHANGED <<pendingTimersRef, rafIdRef, frames>>
    /\ entry' = <<>>
    /\ stale' = FALSE
    /\ UNCHANGED now
    /\ teardown' = <<"resetStreamingState">>

\* reset (start of a session)
reset ==
    /\ messages' = <<>>
    /\ resetStreamingState
    /\ clearPendingTimers
    /\ entry' = <<>>
    /\ stale' = FALSE
    /\ UNCHANGED now
    /\ teardown' = <<"resetStreamingState", "clearPendingTimers">>

\* cleanup (onDisconnect, onError, stop)
cleanup ==
    /\ clearPendingTimers
    /\ resetStreamingState
    /\ entry' = closed(entry, "dead")
    /\ stale' = FALSE
    /\ UNCHANGED <<messages, now>>
    /\ teardown' = <<"clearPendingTimers", "resetStreamingState">>

\* time passes
tick(d) ==
    /\ now' = now + d
    /\ UNCHANGED <<messages, turnRefs, pendingTimersRef, rafIdRef, frames, history>>
    /\ teardown' = <<>>
    /\ UNCHANGED viewVars

\* an onMessage that takes every role but "agent" for the user
onMessageAgentOnly(role, message, late) ==
    IF role = "agent"
    THEN handleAgentMessage(message, late)
    ELSE addUserMessage(message)

\* onMessage of the voice session
onMessage(role, message, late) ==
    IF role = "user"
    THEN addUserMessage(message)
    ELSE handleAgentMessage(message, late)

\* an onModeChange that finalizes on every mode
onModeChangeAnyMode(mode) == handleAgentDone

\* onModeChange of the voice session
onModeChange(mode) ==
    IF mode = "listening"
    THEN handleAgentDone
    ELSE /\ teardown' = <<>>
         /\ UNCHANGED <<messages, turnRefs, pendingTimersRef, rafIdRef, frames, now, history>>
         /\ UNCHANGED viewVars

-----------------------------------------------------------------------------
(* The session: every handler may run at any time, within the bounds *)

Lateness == IF stale THEN {TRUE, FALSE} ELSE {FALSE}

\* reset and cleanup, called with the audio path left as it is
Reset == reset /\ UNCHANGED viewVars
Cleanup == cleanup /\ UNCHANGED viewVars

UserSpeaks(maxMsgs) ==
    \E text \in UserMessages : Len(messages) < maxMsgs /\ addUserMessage(text)

AudioArrives(maxTurns) ==
    \E p \in Payloads, late \in Lateness :
        /\ turnId <= maxTurns
        /\ cumulativeAudioMsRef + durationMs(p) <= MaxAudio * 100 * MsScale
        /\ handleAudioChunk(p, late)
        /\ UNCHANGED viewVars

AlignmentArrives(maxTurns, maxAligned) ==
    \E b \in Blocks, late \in Lateness :
        /\ turnId <= maxTurns
        /\ alignedCharCountRef + Len(b.chars) <= maxAligned
        /\ handleAlignment(b, late)

AgentMessageArrives(maxTurns) ==
    \E m \in AgentMessages, late \in Lateness :
        /\ turnId <= maxTurns
        /\ handleAgentMessage(m, late)

TimerFires == \E t \in pendingTimersRef : timerFires(t)

FrameFires(maxMsgs) ==
    /\ Len(displayUpdate(messages, getDisplayText)) <= maxMsgs
    /\ frameFires

AgentDone(maxMsgs) ==
    /\ finalText # <<>> => Len(finalizeUpdate(messages, finalText)) <= maxMsgs
    /\ handleAgentDone

Interrupt(maxMsgs) ==
    /\ Len(interruptUpdate(messages, getDisplayText)) <= maxMsgs
    /\ handleInterrupt

Tick ==
    /\ now + TickMs <= T0 + MaxTicks * TickMs
    /\ tick(TickMs)

Session(maxTurns, maxAligned, maxMsgs) ==
    \/ UserSpeaks(maxMsgs)
    \/ AudioArrives(maxTurns)
    \/ AlignmentArrives(maxTurns, maxAligned)
    \/ TimerFires
    \/ FrameFires(maxMsgs)
    \/ AgentMessageArrives(maxTurns)
    \/ AgentDone(maxMsgs)
    \/ Interrupt(maxMsgs)
    \/ Reset
    \/ Cleanup
    \/ Tick

Next == Session(MaxTurns, MaxAligned, MaxMsgs)
Spec == Init /\ [][Next]_vars

\* one turn in which every audio chunk arrives paired with its alignment block
AudioEventArrives ==
    \E p \in Payloads, b \in Blocks, order \in Orders :
        /\ cumulativeAudioMsRef + durationMs(p) <= MaxChunks * 100 * MsScale
        /\ audioEvent(p, b, order)

NextChunks ==
    \/ AudioEventArrives
    \/ TimerFires
    \/ FrameFires(MaxMsgs)
    \/ Tick
SpecChunks == Init /\ [][NextChunks]_vars

\* a single turn of the session, followed further
NextOneTurn == Session(1, OneTurnAligned, OneTurnMsgs)
SpecOneTurn == Init /\ [][NextOneTurn]_vars

\* the life of one turn, from its first signal to its teardown
NextLife == Session(1, LifeAligned, LifeMsgs)
SpecLife == Init /\ [][NextLife]_vars

\* one turn of the agent alone: reveals, refreshes and teardowns
NextFrames ==
    \/ AlignmentArrives(1, MaxAligned)
    \/ TimerFires
    \/ FrameFires(MaxMsgs)
    \/ AgentMessageArrives(1)
    \/ AgentDone(MaxMsgs)
    \/ Interrupt(MaxMsgs)
    \/ Reset
    \/ Cleanup
    \/ Tick
SpecFrames == Init /\ [][NextFrames]_vars

\* one turn of the agent with its audio accounted
NextTurn ==
    \/ NextFrames
    \/ AudioArrives(1)
SpecTurn == Init /\ [][NextTurn]_vars

\* two turns, one after the other, before any reveal timer is due and with no
\* audio accounted
NextTwoTurns ==
    \/ UserSpeaks(LifeMsgs)
    \/ AlignmentArrives(2, LifeAligned)
    \/ FrameFires(LifeMsgs)
    \/ AgentMessageArrives(2)
    \/ AgentDone(LifeMsgs)
    \/ Interrupt(LifeMsgs)
    \/ Reset
    \/ Cleanup
SpecTwoTurns == Init /\ [][NextTwoTurns]_vars

\* the life of one turn as the voice session's callbacks deliver it, before any
\* reveal timer is due: onMessage with a role, onModeChange with a mode
MessageArrives(maxTurns, maxMsgs) ==
    \E role \in Roles, late \in Lateness :
        \E m \in IF role = "user" THEN UserMessages \cup {<<"a">>} ELSE AgentMessages :
            /\ role = "user" => Len(messages) < maxMsgs
            /\ role # "user" => turnId <= maxTurns
            /\ onMessage(role, m, late)

ModeChanges(maxMsgs) ==
    \E mode \in Modes :
        /\ (mode = "listening" /\ finalText # <<>>)
               => Len(finalizeUpdate(messages, finalText)) <= maxMsgs
        /\ onModeChange(mode)

NextView ==
    \/ MessageArrives(1, LifeMsgs)
    \/ ModeChanges(LifeMsgs)
    \/ AudioArrives(1)
    \/ AlignmentArrives(1, LifeAligned)
    \/ FrameFires(LifeMsgs)
    \/ Interrupt(LifeMsgs)
    \/ Reset
    \/ Cleanup
SpecView == Init /\ [][NextView]_vars

\* one turn that only receives audio and alignment blocks: the event loop runs
\* every timer that is due and every requested animation frame, and the clock
\* goes on at least until the last pending timer is due
ClockRuns ==
    /\ \/ now + TickMs <= T0 + MaxTicks * TickMs
       \/ \E t \in pendingTimersRef : t.fireAt > now * MsScale
    /\ tick(TickMs)

NextReveal ==
    \/ AudioArrives(1)
    \/ AlignmentArrives(1, MaxAligned)
    \/ TimerFires
    \/ frameFires
    \/ ClockRuns
SpecReveal ==
    /\ Init /\ [][NextReveal]_vars
    /\ WF_vars(TimerFires) /\ WF_vars(frameFires) /\ WF_vars(ClockRuns)

-----------------------------------------------------------------------------
(* ConversationView: the path of the audio chunks to the avatar.  start()   *)
(* and stop() are async; each of their steps below runs from one await to   *)
(* the next.  One call of start() or stop() is in flight at a time.         *)

\* a step of the view that calls nothing of the hook
hookIdle ==
    /\ teardown' = <<>>
    /\ UNCHANGED <<messages, turnRefs, pendingTimersRef, rafIdRef, frames, now, history>>
    /\ UNCHANGED inlineRefs

\* start(), up to the fetch of the tokens
start ==
    /\ status \in {"idle", "error"}
    /\ pc = "none"
    /\ status' = "connecting"
    /\ anamReadyRef' = FALSE
    /\ audioBufferRef' = <<>>
    /\ reset
    /\ pc' = "fetch"
    /\ arrived' = <<>>
    /\ sent' = <<>>
    /\ UNCHANGED <<audioInputStreamRef, anam, elevenlabs, inlineRefs>>

\* start(): the avatar client is created and its listeners added; it starts
\* streaming to the video element
anamSetup ==
    /\ pc = "fetch"
    /\ pc' = "stream"
    /\ anam' = "starting"
    /\ hookIdle
    /\ UNCHANGED <<status, anamReadyRef, audioBufferRef, audioInputStreamRef, elevenlabs,
                   arrived, sent>>

\* start(): the audio input stream is created and the voice session started
streamCreated ==
    /\ pc = "stream"
    /\ audioInputStreamRef' = TRUE
    /\ elevenlabs' = "live"
    /\ pc' = "session"
    /\ hookIdle
    /\ UNCHANGED <<status, anamReadyRef, audioBufferRef, anam, arrived, sent>>

\* start(): Conversation.startSession has resolved
sessionStarted ==
    /\ pc = "session"
    /\ status' = "connected"
    /\ pc' = "none"
    /\ hookIdle
    /\ UNCHANGED <<anamReadyRef, audioBufferRef, audioInputStreamRef, anam, elevenlabs,
                   arrived, sent>>

\* start(): an await has thrown
startFails ==
    /\ pc \in {"fetch", "stream", "session"}
    /\ status' = "error"
    /\ pc' = "none"
    /\ elevenlabs' = "off"
    /\ hookIdle
    /\ UNCHANGED <<anamReadyRef, audioBufferRef, audioInputStreamRef, anam, arrived, sent>>

\* a SESSION_READY listener that leaves the flushed chunks in the buffer
sessionReadyKeepsBuffer ==
    /\ anam = "starting"
    /\ sent' = IF audioInputStreamRef THEN sent \o audioBufferRef ELSE sent
    /\ UNCHANGED audioBufferRef
    /\ anamReadyRef' = TRUE
    /\ anam' = "ready"
    /\ hookIdle
    /\ UNCHANGED <<status, audioInputStreamRef, pc, elevenlabs, arrived>>

\* the listener of AnamEvent.SESSION_READY
sessionReady ==
    /\ anam = "starting"
    /\ sent' = IF audioInputStreamRef THEN sent \o audioBufferRef ELSE sent
    /\ audioBufferRef' = <<>>
    /\ anamReadyRef' = TRUE
    /\ anam' = "ready"
    /\ hookIdle
    /\ UNCHANGED <<status, audioInputStreamRef, pc, elevenlabs, arrived>>

\* onAudio of the voice session
onAudio(base64Audio) ==
    /\ elevenlabs = "live"
    /\ handleAudioChunk(base64Audio, FALSE)
    /\ IF anamReadyRef
       THEN /\ sent' = IF audioInputStreamRef THEN Append(sent, base64Audio) ELSE sent
            /\ UNCHANGED audioBufferRef
       ELSE /\ audioBufferRef' = Append(audioBufferRef, base64Audio)
            /\ UNCHANGED sent
    /\ arrived' = Append(arrived, base64Audio)
    /\ UNCHANGED <<status, anamReadyRef, audioInputStreamRef, pc, anam, elevenlabs, inlineRefs>>

\* onDisconnect of the voice session
onDisconnect ==
    /\ elevenlabs = "live"
    /\ cleanup
    /\ status' = "idle"
    /\ elevenlabs' = "off"
    /\ UNCHANGED <<anamReadyRef, audioBufferRef, audioInputStreamRef, pc, anam, arrived, sent,
                   inlineRefs>>

\* onError of the voice session
onError ==
    /\ elevenlabs = "live"
    /\ cleanup
    /\ status' = "error"
    /\ elevenlabs' = "off"
    /\ UNCHANGED <<anamReadyRef, audioBufferRef, audioInputStreamRef, pc, anam, arrived, sent,
                   inlineRefs>>

\* stop(), up to the awaits of endSession and stopStreaming
stop ==
    /\ status = "connected"
    /\ pc = "none"
    /\ cleanup
    /\ pc' = "ending"
    /\ UNCHANGED <<status, anamReadyRef, audioBufferRef, audioInputStreamRef, anam, elevenlabs,
                   arrived, sent, inlineRefs>>

\* stop(): both sessions have ended; the refs are cleared
stopDone ==
    /\ pc = "ending"
    /\ elevenlabs' = "off"
    /\ anam' = "off"
    /\ audioInputStreamRef' = FALSE
    /\ anamReadyRef' = FALSE
    /\ audioBufferRef' = <<>>
    /\ status' = "idle"
    /\ pc' = "none"
    /\ hookIdle
    /\ UNCHANGED <<arrived, sent>>

Start == turnId <= MaxSessions /\ start

OnAudio == \E chunk \in AudioChunks : Len(arrived) < MaxArrived /\ onAudio(chunk)

NextAudioPath ==
    \/ Start
    \/ anamSetup
    \/ streamCreated
    \/ sessionStarted
    \/ startFails
    \/ sessionReady
    \/ OnAudio
    \/ onDisconnect
    \/ onError
    \/ stop
    \/ stopDone
SpecAudioPath == Init /\ [][NextAudioPath]_vars

-----------------------------------------------------------------------------
(* The inline engine of ConversationView (the variant that does not use the *)
(* hook): every reveal timer appends its character to streamingTextRef.     *)

\* the state after start() has connected and SESSION_READY was handled
InitInline ==
    /\ messages = <<>>
    /\ speechStartTimeRef = 0
    /\ cumulativeAudioMsRef = 0
    /\ pendingTimersRef = {}
    /\ fullAgentTextRef = <<>>
    /\ agentMessageTextRef = <<>>
    /\ revealedIndexRef = 0
    /\ alignedCharCountRef = 0
    /\ rafIdRef = 0
    /\ frames = 0
    /\ now = T0
    /\ turnId = 1
    /\ entry = <<>>
    /\ reqMax = 0
    /\ stale = FALSE
    /\ teardown = <<>>
    /\ status = "connected"
    /\ anamReadyRef = TRUE
    /\ audioBufferRef = <<>>
    /\ audioInputStreamRef = TRUE
    /\ pc = "none"
    /\ anam = "ready"
    /\ elevenlabs = "live"
    /\ arrived = <<>>
    /\ sent = <<>>
    /\ streamingTextRef = <<>>
    /\ chunkAudioOffsetRef = 0

\* what no handler of the inline engine has
inlineIdle ==
    /\ teardown' = <<>>
    /\ UNCHANGED <<revealedIndexRef, alignedCharCountRef, history>>
    /\ UNCHANGED <<status, audioInputStreamRef, pc, anam, elevenlabs>>

\* onAudio of the inline engine
inlineOnAudio(base64Audio) ==
    /\ elevenlabs = "live"
    /\ speechStartTimeRef' = IF cumulativeAudioMsRef = 0 THEN now ELSE speechStartTimeRef
    /\ chunkAudioOffsetRef' = cumulativeAudioMsRef
    /\ IF anamReadyRef
       THEN /\ sent' = IF audioInputStreamRef THEN Append(sent, base64Audio) ELSE sent
            /\ UNCHANGED audioBufferRef
       ELSE /\ audioBufferRef' = Append(audioBufferRef, base64Audio)
            /\ UNCHANGED sent
    /\ arrived' = Append(arrived, base64Audio)
    /\ cumulativeAudioMsRef' = cumulativeAudioMsRef + durationMs(base64Audio)
    /\ inlineIdle
    /\ UNCHANGED <<messages, pendingTimersRef, fullAgentTextRef, agentMessageTextRef, rafIdRef,
                   frames, now, anamReadyRef, streamingTextRef>>

\* the timers onAudioAlignment of the inline engine sets for one block: each
\* carries its character; seq is the order in which the timers were set
inlineTimers(baseTime, audioOffset, block) ==
    { [char   |-> block.chars[i],
       seq    |-> Len(fullAgentTextRef) + i,
       fireAt |-> now * MsScale
                    + Max(0, revealAt(baseTime, audioOffset, block.char_start_times_ms[i])
                               - now * MsScale)] : i \in 1..Len(block.chars) }

\* onAudioAlignment of the inline engine
inlineOnAudioAlignment(block) ==
    /\ elevenlabs = "live"
    /\ fullAgentTextRef' = fullAgentTextRef \o block.chars
    /\ pendingTimersRef' = pendingTimersRef \cup
           inlineTimers(speechStartTimeRef, chunkAudioOffsetRef, block)
    /\ inlineIdle
    /\ UNCHANGED <<messages, speechStartTimeRef, cumulativeAudioMsRef, agentMessageTextRef,
                   rafIdRef, frames, now, anamReadyRef, audioBufferRef, arrived, sent,
                   inlineRefs>>

\* the timers run in the order of their deadlines and, at equal deadlines, in
\* the order in which they were set
runsBefore(u, t) == u.fireAt < t.fireAt \/ (u.fireAt = t.fireAt /\ u.seq < t.seq)

\* a reveal timer of the inline engine runs its callback
inlineTimerFires(t) ==
    /\ t \in pendingTimersRef
    /\ now * MsScale >= t.fireAt
    /\ \A u \in pendingTimersRef : ~runsBefore(u, t)
    /\ pendingTimersRef' = pendingTimersRef \ {t}
    /\ streamingTextRef' = Append(streamingTextRef, t.char)
    /\ scheduleTextUpdate
    /\ inlineIdle
    /\ UNCHANGED <<messages, speechStartTimeRef, cumulativeAudioMsRef, fullAgentTextRef,
                   agentMessageTextRef, now, anamReadyRef, audioBufferRef, arrived, sent,
                   chunkAudioOffsetRef>>

\* the animation frame callback of the inline scheduleTextUpdate
inlineFrameFires ==
    /\ frames > 0
    /\ frames' = frames - 1
    /\ rafIdRef' = 0
    /\ messages' = displayUpdate(messages, streamingTextRef)
    /\ inlineIdle
    /\ UNCHANGED <<speechStartTimeRef, cumulativeAudioMsRef, fullAgentTextRef,
                   agentMessageTextRef, pendingTimersRef, now, anamReadyRef, audioBufferRef,
                   arrived, sent, inlineRefs>>

\* finalizeAgentMessage of the inline engine (onModeChange with mode "listening")
inlineFinalText == OrElse(agentMessageTextRef, OrElse(fullAgentTextRef, streamingTextRef))
inlineFinalizeAgentMessage ==
    /\ elevenlabs = "live"
    /\ clearPendingTimers
    /\ messages' = IF inlineFinalText # <<>> THEN finalizeUpdate(messages, inlineFinalText)
                                             ELSE messages
    /\ streamingTextRef' = <<>>
    /\ fullAgentTextRef' = <<>>
    /\ agentMessageTextRef' = <<>>
    /\ cumulativeAudioMsRef' = 0
    /\ chunkAudioOffsetRef' = 0
    /\ speechStartTimeRef' = 0
    /\ inlineIdle
    /\ UNCHANGED <<now, anamReadyRef, audioBufferRef, arrived, sent>>

\* time passes
inlineTick ==
    /\ now' = now + TickMs
    /\ inlineIdle
    /\ UNCHANGED <<messages, speechStartTimeRef, cumulativeAudioMsRef, fullAgentTextRef,
                   agentMessageTextRef, pendingTimersRef, rafIdRef, frames, anamReadyRef,
                   audioBufferRef, arrived, sent, inlineRefs>>

NextInline ==
    \/ \E chunk \in AudioChunks : Len(arrived) < InlineChunks /\ inlineOnAudio(chunk)
    \/ \E block \in InlineBlocks :
           /\ Len(fullAgentTextRef) + Len(block.chars) <= InlineAligned
           /\ inlineOnAudioAlignment(block)
    \/ \E t \in pendingTimersRef : inlineTimerFires(t)
    \/ inlineFrameFires
    \/ Len(messages) < InlineMsgs /\ inlineFinalizeAgentMessage
    \/ now + TickMs <= T0 + MaxTicks * TickMs /\ inlineTick
SpecInline == InitInline /\ [][NextInline]_vars

-----------------------------------------------------------------------------
\* audio accounting alone: short payloads of every shape, in one turn
AccountAudio ==
    \E p \in ShortPayloads :
        /\ cumulativeAudioMsRef + durationMs(p) \in (-AudioSpan)..AudioSpan
        /\ handleAudioChunk(p, FALSE)
        /\ UNCHANGED viewVars
SpecAudio == Init /\ [][AccountAudio]_vars

\* the scenario of one turn: the block "Hi" with start times 0 and 200 ms opens
\* the turn with no audio accounted, and the ground truth "Hi there" arrives
\* 600 ms (and less than 700 ms) later
HiBlock == [chars |-> <<"H", "i">>, char_start_times_ms |-> <<0, 200>>]
HiThere == <<"H", "i", " ", "t", "h", "e", "r", "e">>

ScenarioAlignment ==
    /\ speechStartTimeRef = 0
    /\ handleAlignment(HiBlock, FALSE)

ScenarioGroundTruth ==
    /\ speechStartTimeRef # 0
    /\ agentMessageTextRef = <<>>
    /\ now >= speechStartTimeRef + 600
    /\ now < speechStartTimeRef + 700
    /\ handleAgentMessage(HiThere, FALSE)

ScenarioTick ==
    /\ now + ScenarioStepMs <= T0 + ScenarioTicks * ScenarioStepMs
    /\ tick(ScenarioStepMs)

NextScenario ==
    \/ ScenarioAlignment
    \/ ScenarioGroundTruth
    \/ TimerFires
    \/ frameFires
    \/ ScenarioTick
SpecScenario == Init /\ [][NextScenario]_vars

-----------------------------------------------------------------------------
(* The claims *)

Last(s) == s[Len(s)]
OpenEntries == {i \in 1..Len(entry) : entry[i] = "open"}

\* C1: within one turn, whatever the order in which reveal timers fire and
\* ground-truth messages fast-forward, revealedIndex never decreases and equals
\* the largest index requested so far in the turn (charIndex + 1 of a fired
\* timer, the length of a ground-truth message longer than the cursor).
C1_MonotonicMax ==
    /\ [](revealedIndexRef = reqMax)
    /\ [][turnId' = turnId => revealedIndexRef' >= revealedIndexRef]_vars

\* the timer of a later character fired before the timer of an earlier one,
\* which is still pending, and no ground truth has arrived
C1_Witness ==
    /\ agentMessageTextRef = <<>>
    /\ revealedIndexRef >= 2
    /\ \E t \in pendingTimersRef : t.charIndex + 1 < revealedIndexRef

\* C2: while an agent turn is open, the text of its transcript Message never
\* becomes shorter from one display update to the next.
C2_NeverShrinks ==
    [][(/\ messages # <<>>
        /\ entry[Len(messages)] = "open"
        /\ Len(messages') >= Len(messages)
        /\ entry'[Len(messages)] = "open")
       => Len(messages'[Len(messages)].text) >= Len(messages[Len(messages)].text)]_vars

\* C3: every agent turn contributes at most one Message to the transcript.
C3_OneMessagePerTurn == Cardinality(OpenEntries) <= 1

\* C4: at every observation point (no display refresh pending) while a turn is
\* open, the text of its Message equals sourceText[0:revealedIndex].
C4_PrefixProperty ==
    (messages # <<>> /\ entry[Len(messages)] = "open" /\ rafIdRef = 0)
        => Last(messages).text = getDisplayText

\* C5: after an interrupt on an open turn its Message has the text displayed at
\* that moment and interrupted = true, and no later operation short of reset
\* changes the text or the flag of an interrupted Message.
C5_InterruptFreezes ==
    [][/\ (handleInterrupt /\ getDisplayText # <<>>)
            => /\ messages' # <<>>
               /\ Last(messages').text = getDisplayText
               /\ Last(messages').interrupted
       /\ ~reset => \A i \in 1..Len(messages) :
                        messages[i].interrupted
                            => i <= Len(messages') /\ messages'[i] = messages[i]]_vars

\* C6: once a turn has been finalized, no later operation short of reset changes
\* the text of its Message.
C6_FinalizedFrozen ==
    [][~reset => \A i \in 1..Len(messages) :
                    entry[i] = "final"
                        => i <= Len(messages') /\ messages'[i].text = messages[i].text]_vars

\* C7: after finalize on a turn with a non-empty final text the transcript ends
\* with an agent Message of that turn whose text is the final text.
C7_FinalizeWrites ==
    [][(handleAgentDone /\ finalText # <<>>)
       => /\ messages' # <<>>
          /\ Last(messages').role = "agent"
          /\ Last(messages').text = finalText
          /\ Last(entry') = "final"]_vars

\* C8: a signal that arrives for a turn an interrupt destroyed changes neither
\* the per-turn state nor the pending timers nor the transcript.
LateSignal ==
    \/ \E p \in Payloads : handleAudioChunk(p, TRUE)
    \/ \E b \in Blocks : handleAlignment(b, TRUE)
    \/ \E m \in AgentMessages : handleAgentMessage(m, TRUE)
C8_LateSignalsIgnored ==
    [][(stale /\ LateSignal) => UNCHANGED <<turnRefs, pendingTimersRef, messages>>]_vars

\* C9: no reveal timer and no display refresh scheduled during a turn is still
\* pending once that turn has been finalized, interrupted, cleaned up or reset,
\* so none of them can change revealedIndex or the transcript afterwards.
C9_NoStaleCallbacks ==
    /\ \A t \in pendingTimersRef : t.turn = turnId
    /\ rafIdRef \in {0, turnId}

\* a turn was torn down and the next one has timers and a refresh of its own
C9_Witness ==
    /\ turnId >= 2
    /\ pendingTimersRef # {}
    /\ rafIdRef # 0


\* the deadline of a character that starts charStartTime ms into a block placed
\* offset (in 1/MsScale ms) after the start of speech
Deadline(offset, charStartTime) ==
    (speechStartTimeRef' + charStartTime + 500) * MsScale + offset
NewTimers == pendingTimersRef' \ pendingTimersRef
StartOf(t) == (t.charIndex - alignedCharCountRef) * CharMs

\* C10: the block of chunk k is placed at the total duration of chunks 1..k-1,
\* whether the chunk's audio signal arrives before or after its alignment block.
C10_OrderIndependent ==
    [][\A t \in NewTimers : t.revealAt = Deadline(cumulativeAudioMsRef, StartOf(t))]_vars

\* C11: the reveal deadline of a character is startedAt + the cumulative audio
\* duration as it was when its block was received + its start offset + 500 ms,
\* and audio accounted after the block was received moves no deadline: the
\* timers stay as they were set and none fires before its deadline.
C11_StampedDeadline ==
    [][/\ \A b \in Blocks, late \in BOOLEAN :
            (NewTimers # {} /\ handleAlignment(b, late))
                => \A t \in NewTimers :
                      t.revealAt = Deadline(cumulativeAudioMsRef, StartOf(t))
       /\ (/\ cumulativeAudioMsRef' > cumulativeAudioMsRef
           /\ \E p \in Payloads, late \in BOOLEAN : handleAudioChunk(p, late))
            => pendingTimersRef' = pendingTimersRef
       /\ \A t \in pendingTimersRef : timerFires(t) => now * MsScale >= t.revealAt]_vars

\* a block was placed at offset 0 and audio was accounted afterwards
C11_Witness ==
    /\ cumulativeAudioMsRef > 0
    /\ \E t \in pendingTimersRef :
         t.charIndex = 0 /\ t.revealAt = (speechStartTimeRef + 500) * MsScale

\* C12: finalize leaves no reveal timer and no display refresh pending, and a
\* second finalize right after it leaves the transcript as the first one left it.
C12_FinalizeTwice ==
    [][handleAgentDone
        => /\ pendingTimersRef' = {}
           /\ rafIdRef' = 0
           \* the second call, computed on the state the first one leaves
           /\ LET again == OrElse(agentMessageTextRef', fullAgentTextRef')
              IN  (IF again # <<>> THEN finalizeUpdate(messages', again) ELSE messages')
                      = messages'
           \* this call, when it is the second one
           /\ (~TurnOpen /\ pendingTimersRef = {} /\ rafIdRef = 0)
                  => messages' = messages]_vars

\* a turn was finalized into the transcript and nothing has arrived since
C12_Witness ==
    /\ messages # <<>>
    /\ Last(entry) = "final"
    /\ ~TurnOpen
    /\ pendingTimersRef = {}
    /\ rafIdRef = 0

\* C13: after reset the transcript is empty, revealedIndex is 0, the per-turn
\* accumulators are zero and nothing scheduled before it is pending, so that
\* however far time advances no timer and no refresh changes anything: in the
\* state reset leaves only a new signal can change the state again.
C13_ResetWipes ==
    /\ [][reset => /\ messages' = <<>>
                   /\ revealedIndexRef' = 0
                   /\ ~TurnOpen'
                   /\ pendingTimersRef' = {}
                   /\ rafIdRef' = 0]_vars
    /\ [][(~TurnOpen /\ pendingTimersRef = {} /\ rafIdRef = 0 /\ (TimerFires \/ frameFires \/ Tick))
            => UNCHANGED <<messages, turnRefs, pendingTimersRef, rafIdRef>>]_vars

\* a turn had begun, with time elapsed, and the session was reset
C13_Witness ==
    /\ messages = <<>>
    /\ ~TurnOpen
    /\ turnId >= 2
    /\ now > T0
    /\ pendingTimersRef = {}
    /\ rafIdRef = 0

\* C14: cleanup cancels every pending timer and the pending refresh, zeroes the
\* per-turn accumulators and leaves the transcript exactly as it was.
C14_CleanupKeepsTranscript ==
    [][cleanup => /\ pendingTimersRef' = {}
                  /\ rafIdRef' = 0
                  /\ ~TurnOpen'
                  /\ messages' = messages]_vars

\* a turn that had shown text was cleaned up: its Message is still there, not
\* interrupted, and nothing is pending
C14_Witness ==
    /\ \E i \in 1..Len(messages) :
          entry[i] = "dead" /\ ~messages[i].interrupted /\ messages[i].text # <<>>
    /\ ~TurnOpen
    /\ pendingTimersRef = {}
    /\ rafIdRef = 0

\* C15: a ground-truth message is stored as the ground-truth text; when it is
\* longer than revealedIndex, revealedIndex becomes its length at once, no timer
\* set before it stays pending and a display update is scheduled, which shows the
\* full text.
C15_GroundTruthFastForward ==
    [][/\ \A m \in AgentMessages, late \in BOOLEAN :
            handleAgentMessage(m, late)
                => /\ agentMessageTextRef' = m
                   /\ Len(m) > revealedIndexRef
                        => /\ revealedIndexRef' = Len(m)
                           /\ pendingTimersRef' = {}
                           /\ rafIdRef' # 0
       /\ (frameFires /\ agentMessageTextRef # <<>>
                      /\ revealedIndexRef >= Len(agentMessageTextRef))
            => Last(messages').text = agentMessageTextRef]_vars

\* the ground truth arrived while the timers of an alignment block were pending
\* (no time has passed since the block), and the full text has been displayed
C15_Witness ==
    /\ fullAgentTextRef # <<>>
    /\ now = speechStartTimeRef
    /\ agentMessageTextRef # <<>>
    /\ revealedIndexRef = Len(agentMessageTextRef)
    /\ pendingTimersRef = {}
    /\ rafIdRef = 0
    /\ messages # <<>>
    /\ Last(messages).text = agentMessageTextRef

\* C16: in the scenario (block "Hi" with offsets 0 and 200 received at t0 with
\* audio offset 0, ground truth "Hi there" at t0 + 600) "H" is revealed at
\* t0 + 500 and "Hi" would be at t0 + 700; the ground truth reveals "Hi there"
\* in full at once, and the timer of offset 200 changes nothing any more.
C16_HiThere ==
    /\ [][ScenarioAlignment
            => pendingTimersRef' =
                 { [charIndex |-> 0, revealAt |-> (now + 500) * MsScale,
                    fireAt |-> (now + 500) * MsScale, turn |-> turnId],
                   [charIndex |-> 1, revealAt |-> (now + 700) * MsScale,
                    fireAt |-> (now + 700) * MsScale, turn |-> turnId] }]_vars
    \* before the ground truth: nothing before t0 + 500, at most "H" before t0 + 700
    /\ [](agentMessageTextRef = <<>> /\ speechStartTimeRef # 0
            => /\ now < speechStartTimeRef + 500 => revealedIndexRef = 0 /\ messages = <<>>
               /\ now < speechStartTimeRef + 700
                    => /\ revealedIndexRef <= 1
                       /\ messages # <<>> => Last(messages).text = <<"H">>)
    \* the ground truth reveals the full text and leaves no timer
    /\ [][ScenarioGroundTruth
            => /\ revealedIndexRef' = Len(HiThere)
               /\ getDisplayText' = HiThere
               /\ pendingTimersRef' = {}]_vars
    /\ [](agentMessageTextRef = HiThere
            => /\ revealedIndexRef = Len(HiThere)
               /\ pendingTimersRef = {}
               /\ rafIdRef = 0 => messages # <<>> /\ Last(messages).text = HiThere)

\* "H" was displayed, then the ground truth arrived and "Hi there" is displayed,
\* past the deadline of the cancelled timer
C16_Witness ==
    /\ agentMessageTextRef = HiThere
    /\ now >= speechStartTimeRef + 700
    /\ Len(messages) = 1
    /\ Last(messages).text = HiThere
    /\ rafIdRef = 0

\* C17: for every payload, malformed padding included, the duration that is
\* added is never negative: cumulativeAudioMs never decreases within a turn.
C17_NeverNegative ==
    [][(\E p \in ShortPayloads : handleAudioChunk(p, FALSE))
        => cumulativeAudioMsRef' >= cumulativeAudioMsRef]_vars

\* C18: for a payload of length L with P trailing '=' characters, exactly
\* ((L * 3 / 4 - P) / 2 / 16000) * 1000 ms are added to cumulativeAudioMs, which
\* is 3 * L - 4 * P in units of 1/128 ms, and nothing else changes.
C18_ExactDuration ==
    [][\A n \in 0..MaxData, p \in 0..MaxPad :
        handleAudioChunk(Pay(n, p), FALSE)
            => /\ cumulativeAudioMsRef' - cumulativeAudioMsRef = 3 * (n + p) - 4 * p
               /\ UNCHANGED <<messages, speechStartTimeRef, pendingTimersRef,
                              fullAgentTextRef, agentMessageTextRef, revealedIndexRef,
                              alignedCharCountRef, rafIdRef, now>>]_vars

\* the payload "AAAAAA==" (L = 8, P = 2) was accounted: 16/128 ms
C18_Witness ==
    /\ cumulativeAudioMsRef = 3 * 8 - 4 * 2
    /\ speechStartTimeRef = 0
    /\ pendingTimersRef = {}

C20_CursorWithinText ==
    revealedIndexRef <= Max(Len(fullAgentTextRef), Len(agentMessageTextRef))

\* C20 as amended: whenever revealedIndex advances, its new value is at most
\* max(len(alignedText), len(groundTruthText)) of that moment; a ground-truth
\* message not longer than revealedIndex leaves revealedIndex where it is.
C20_AdvanceWithinText ==
    [][/\ revealedIndexRef' > revealedIndexRef
            => revealedIndexRef' <= Max(Len(fullAgentTextRef'), Len(agentMessageTextRef'))
       /\ \A m \in AgentMessages, late \in BOOLEAN :
            (Len(m) <= revealedIndexRef /\ handleAgentMessage(m, late))
                => revealedIndexRef' = revealedIndexRef]_vars

\* a shorter ground truth has replaced the one that set revealedIndex
C20_Witness ==
    /\ agentMessageTextRef # <<>>
    /\ revealedIndexRef > Len(agentMessageTextRef)
    /\ revealedIndexRef > Len(fullAgentTextRef)

\* C21: a ground-truth message not longer than revealedIndex leaves
\* revealedIndex unchanged and is stored as the ground-truth text, and a finalize
\* that follows writes that shorter ground truth as the final text of the turn.
C21_ShorterGroundTruthFinal ==
    [][/\ \A m \in AgentMessages, late \in BOOLEAN :
            (Len(m) <= revealedIndexRef /\ handleAgentMessage(m, late))
                => revealedIndexRef' = revealedIndexRef /\ agentMessageTextRef' = m
       /\ (/\ handleAgentDone
           /\ agentMessageTextRef # <<>>
           /\ Len(agentMessageTextRef) < revealedIndexRef)
            => /\ messages' # <<>>
               /\ Last(messages').role = "agent"
               /\ Last(messages').text = agentMessageTextRef]_vars

\* C22: the interrupted flag is sticky: no operation short of reset (display
\* update, finalize, interrupt, cleanup, user message) clears it or removes the
\* Message, and display updates and finalize never write into a Message whose
\* flag is true.
C22_InterruptedSticky ==
    [][~reset
        => \A i \in 1..Len(messages) :
              messages[i].interrupted
                  => /\ i <= Len(messages')
                     /\ messages'[i].interrupted
                     /\ (frameFires \/ handleAgentDone) => messages'[i] = messages[i]]_vars

\* after an interrupted Message, a later turn has put its own Message into the
\* transcript
C22_Witness ==
    /\ Len(messages) >= 2
    /\ messages[Len(messages) - 1].role = "agent"
    /\ messages[Len(messages) - 1].interrupted
    /\ Last(messages).role = "agent"
    /\ ~Last(messages).interrupted

\* C23: at most one display refresh is pending at any time; the refresh, when
\* it runs, makes one transcript update with the text as it is at that moment,
\* however many cursor advances came before it; and after finalize, interrupt,
\* reset or cleanup no refresh is pending.
C23_OneRefresh ==
    /\ [](frames <= 1 /\ (frames = 1 <=> rafIdRef # 0))
    /\ [][frameFires
            => /\ frames' = 0
               /\ Len(messages') <= Len(messages) + 1
               /\ Last(messages').text = getDisplayText]_vars
    /\ [][(handleAgentDone \/ handleInterrupt \/ reset \/ cleanup)
            => frames' = 0 /\ rafIdRef' = 0]_vars

\* the timers of two characters have fired and one refresh is pending
C23_Witness ==
    /\ messages = <<>>
    /\ agentMessageTextRef = <<>>
    /\ alignedCharCountRef = 2
    /\ pendingTimersRef = {}
    /\ revealedIndexRef = 2
    /\ frames = 1

\* C24: a reveal deadline already in the past when its alignment block is
\* received gets a timer with zero delay: handleAlignment sets one timer per
\* character of the block, none with a negative delay, and a timer whose
\* deadline has passed is due at once; when such a timer fires it advances the
\* cursor to its character unless the cursor is already there or further.
C24_PastDeadlineClamped ==
    /\ [][\A b \in Blocks, late \in BOOLEAN :
            (alignedCharCountRef' > alignedCharCountRef /\ handleAlignment(b, late))
                => \A i \in 1..Len(b.chars) :
                       \E t \in NewTimers :
                           /\ t.charIndex = alignedCharCountRef + i - 1
                           /\ t.fireAt >= now * MsScale
                           /\ t.revealAt <= now * MsScale => t.fireAt = now * MsScale
                           /\ t.revealAt >= now * MsScale => t.fireAt = t.revealAt]_vars
    /\ [][\A t \in pendingTimersRef :
            (t.fireAt > t.revealAt /\ timerFires(t))
                => revealedIndexRef' = Max(revealedIndexRef, t.charIndex + 1)]_vars

\* a timer set with zero delay for a deadline that had passed is pending, and
\* its character is not revealed yet
C24_Witness ==
    \E t \in pendingTimersRef :
        /\ t.fireAt > t.revealAt
        /\ t.fireAt = now * MsScale
        /\ t.charIndex + 1 > revealedIndexRef

\* C25: every operation that both cancels the pending work and clears the
\* per-turn state (finalize, interrupt, reset, cleanup) calls
\* clearPendingTimers before it calls resetStreamingState.
C25_CancelBeforeClear ==
    \A i, j \in 1..Len(teardown) :
        (teardown[i] = "clearPendingTimers" /\ teardown[j] = "resetStreamingState") => i < j

\* C26: when an interrupt arrives and the last transcript entry is not an
\* agent message (or there is none), the partial text, if non-empty, is
\* appended as a new agent message with interrupted = true, and the transcript
\* is unchanged if it is empty; every interrupt leaves the per-turn state
\* zeroed, no timer pending and no frame pending.
C26_InterruptAppends ==
    [][handleInterrupt =>
          /\ ~LastIs(messages, "agent") =>
                 IF getDisplayText # <<>>
                 THEN messages' = Append(messages, Msg("agent", getDisplayText, TRUE))
                 ELSE messages' = messages
          /\ ~TurnOpen' /\ pendingTimersRef' = {} /\ rafIdRef' = 0 /\ frames' = 0]_vars

\* an interrupt has just left a user message followed by the interrupted
\* partial text of the turn
C26_Witness ==
    /\ teardown # <<>>
    /\ stale
    /\ messages = <<Msg("user", <<"u">>, FALSE), Msg("agent", <<"b">>, TRUE)>>

\* C27 (as claimed): the raw byte count is floor(len * 3 / 4) minus the number
\* of trailing '=' characters, a whole number of bytes for every payload length;
\* a byte is 4 units of 1/128 ms.
C27_FlooredBytes ==
    [][\A p \in ShortPayloads :
        (cumulativeAudioMsRef' # cumulativeAudioMsRef /\ handleAudioChunk(p, FALSE))
            => cumulativeAudioMsRef' - cumulativeAudioMsRef
                   = 4 * ((3 * Len(p)) \div 4 - padding(p))]_vars

\* C27 (amended): the raw byte count is len * 3 / 4 minus the number of
\* trailing '=' characters, with no rounding: it is the whole number
\* floor(len * 3 / 4) - pads when the length is a multiple of 4 and has a
\* fractional part otherwise.
C27_UnroundedBytes ==
    [][\A p \in ShortPayloads :
        handleAudioChunk(p, FALSE)
            => LET quarterBytes == cumulativeAudioMsRef' - cumulativeAudioMsRef
               IN  /\ quarterBytes = 3 * Len(p) - 4 * padding(p)
                   /\ Len(p) % 4 = 0
                        => quarterBytes = 4 * ((3 * Len(p)) \div 4 - padding(p))
                   /\ Len(p) % 4 # 0 => quarterBytes % 4 # 0]_vars

\* the payload "AAAAA" (3.75 bytes) was accounted
C27_Witness ==
    /\ cumulativeAudioMsRef = 3 * 5
    /\ messages = <<>>

\* C28: onMessage with role "user" appends the message verbatim as one new
\* last entry and changes no other entry, no per-turn ref, no timer and no
\* frame; onMessage with any other role is handleAgentMessage of the message
\* and leaves the transcript as it is.
C28_MessageByRole ==
    [][\A role \in Roles, m \in UserMessages \cup AgentMessages, late \in BOOLEAN :
        ((messages' # messages \/ agentMessageTextRef' = m) /\ onMessage(role, m, late))
            => IF role = "user"
               THEN /\ messages' = Append(messages, Msg("user", m, FALSE))
                    /\ UNCHANGED <<turnRefs, pendingTimersRef, rafIdRef, frames>>
               ELSE /\ agentMessageTextRef' = m
                    /\ revealedIndexRef' = Max(revealedIndexRef, Len(m))
                    /\ messages' = messages]_vars

\* the ground truth "b" was observed and is not in the transcript; the user
\* message "a" is its last entry
C28_Witness ==
    /\ agentMessageTextRef = <<"b">>
    /\ revealedIndexRef = 1
    /\ messages = <<Msg("user", <<"a">>, FALSE)>>

\* C29: a step that takes an open turn to idle is onModeChange with mode
\* "listening", an interrupt, a cleanup or a reset; onModeChange with any
\* other mode changes neither the transcript, nor a per-turn ref, nor the
\* pending timers, nor the pending frame.
C29_OnlyListeningFinalizes ==
    /\ [][(TurnOpen /\ ~TurnOpen')
            => \/ onModeChange("listening")
               \/ handleInterrupt
               \/ Cleanup
               \/ reset]_vars
    /\ [][\A mode \in Modes \ {"listening"} :
            onModeChange(mode)
                => UNCHANGED <<messages, turnRefs, pendingTimersRef, rafIdRef, frames>>]_vars

\* a mode change came in the middle of a turn: a character is revealed and
\* shown, and nothing was torn down
C29_Witness ==
    /\ TurnOpen
    /\ revealedIndexRef = 1
    /\ fullAgentTextRef = <<"a">>
    /\ messages = <<Msg("agent", <<"a">>, FALSE)>>
    /\ teardown = <<>>

\* C30: the state right after finalize, interrupt, cleanup or reset is idle:
\* startedAt and cumulativeAudioMs are 0, the aligned text and the ground truth
\* are empty, the cursor and the aligned-character count are 0, and no timer is
\* pending.
C30_IdleAfterTeardown ==
    [][(handleAgentDone \/ handleInterrupt \/ cleanup \/ reset)
        => /\ speechStartTimeRef' = 0
           /\ cumulativeAudioMsRef' = 0
           /\ fullAgentTextRef' = <<>>
           /\ agentMessageTextRef' = <<>>
           /\ revealedIndexRef' = 0
           /\ alignedCharCountRef' = 0
           /\ pendingTimersRef' = {}]_vars

\* the last step tore down the first turn, whose text "a" is in the transcript
C30_Witness ==
    /\ teardown # <<>>
    /\ turnId = 2
    /\ ~TurnOpen
    /\ pendingTimersRef = {}
    /\ messages = <<Msg("agent", <<"a">>, FALSE)>>

PrefixOf(p, s) == Len(p) <= Len(s) /\ p = SubSeq(s, 1, Len(p))

\* C31: the text that a display update writes into the agent message of the
\* turn is a prefix of the ground truth or of the aligned text as they are when
\* the update runs, in whatever order the timers fired and whether the ground
\* truth came before or after the alignment blocks.
C31_UpdateWritesPrefix ==
    [][frameFires
        => /\ Last(messages').role = "agent"
           /\ \/ PrefixOf(Last(messages').text, agentMessageTextRef)
              \/ PrefixOf(Last(messages').text, fullAgentTextRef)]_vars

\* the ground truth "b" is shown while the aligned text is "aa"
C31_Witness ==
    /\ agentMessageTextRef = <<"b">>
    /\ fullAgentTextRef = <<"a", "a">>
    /\ messages = <<Msg("agent", <<"b">>, FALSE)>>
    /\ frames = 0

\* C32: when timers and refreshes run and the turn receives no ground truth,
\* interrupt, finalize, cleanup or reset, every aligned character is eventually
\* revealed: once n characters are aligned, the cursor eventually reaches n
\* and the agent message eventually shows the aligned text up to at least its
\* n-th character.
C32_EventuallyRevealed ==
    \A n \in 1..MaxAligned :
        (alignedCharCountRef = n)
            ~> /\ revealedIndexRef >= n
               /\ messages # <<>>
               /\ Last(messages).role = "agent"
               /\ Len(Last(messages).text) >= n
               /\ PrefixOf(Last(messages).text, fullAgentTextRef)

\* both aligned characters are revealed and shown, and nothing is pending
C32_Witness ==
    /\ alignedCharCountRef = 2
    /\ revealedIndexRef = 2
    /\ pendingTimersRef = {}
    /\ frames = 0
    /\ agentMessageTextRef = <<>>
    /\ messages = <<Msg("agent", <<"a", "a">>, FALSE)>>

C36_GroundTruthOnceReceived ==
    [][\A m \in AgentMessages, late \in BOOLEAN :
        handleAgentMessage(m, late) => getDisplayText' = Slice(m, revealedIndexRef')]_vars

\* C36 (amended): the text that a refresh writes and the partial text that an
\* interrupt freezes are sourceText[0:revealedIndex], cut at the end of
\* sourceText, with sourceText the ground truth if it is non-empty and the
\* aligned text otherwise.
SourceText == IF agentMessageTextRef = <<>> THEN fullAgentTextRef ELSE agentMessageTextRef
Shown == [i \in 1..(IF revealedIndexRef <= Len(SourceText) THEN revealedIndexRef
                                                          ELSE Len(SourceText))
             |-> SourceText[i]]
C36_DisplayTextSlice ==
    /\ [][frameFires => Last(messages').text = Shown]_vars
    /\ [][(handleInterrupt /\ Shown # <<>>)
            => Last(messages').text = Shown /\ Last(messages').interrupted]_vars

\* an empty ground truth replaced the one that fast-forwarded the cursor to 1
\* (the timer of the only aligned character is still pending): the aligned text
\* "a" is the source again
C36_Witness ==
    /\ agentMessageTextRef = <<>>
    /\ fullAgentTextRef = <<"a">>
    /\ revealedIndexRef = 1
    /\ reqMax = 1
    /\ pendingTimersRef # {}
    /\ messages = <<Msg("agent", <<"a">>, FALSE)>>

\* C34: when handleAlignment returns, the aligned text is what it was followed
\* by the characters of the block in their order, and no timer of the block
\* has fired (the cursor is where it was); the i-th character of the block
\* (counted from 0) has a timer that reveals up to index (characters aligned
\* before the block) + i + 1; and between two states of the same turn the
\* aligned text only grows by appending.
C34_AlignedTextAppendOnly ==
    /\ [][\A b \in Blocks, late \in BOOLEAN :
            (alignedCharCountRef' > alignedCharCountRef /\ handleAlignment(b, late))
                => /\ fullAgentTextRef' = fullAgentTextRef \o b.chars
                   /\ revealedIndexRef' = revealedIndexRef
                   /\ messages' = messages
                   /\ \A i \in 0..(Len(b.chars) - 1) :
                          \E t \in NewTimers :
                              /\ t.charIndex + 1 = Len(fullAgentTextRef) + i + 1
                              /\ fullAgentTextRef'[t.charIndex + 1] = b.chars[i + 1]]_vars
    /\ [][turnId' = turnId => PrefixOf(fullAgentTextRef, fullAgentTextRef')]_vars

\* two blocks of one character each have been aligned, the second when the
\* deadline of the first had passed, and no timer has fired
C34_Witness ==
    /\ fullAgentTextRef = <<"a", "a">>
    /\ revealedIndexRef = 0
    /\ \E t, u \in pendingTimersRef :
           t.charIndex = 0 /\ u.charIndex = 1 /\ t.revealAt = u.revealAt

\* C35: the start of speech is fixed once per turn: the first alignment block
\* of the turn records now(), and no later alignment block, audio chunk, timer,
\* refresh or ground-truth message changes it; only finalize, interrupt,
\* cleanup and reset, which end the turn, put it back to 0.
C35_StartedAtFixed ==
    /\ [][\A b \in Blocks, late \in BOOLEAN :
            (alignedCharCountRef' > alignedCharCountRef /\ handleAlignment(b, late))
                => speechStartTimeRef' = IF speechStartTimeRef = 0 THEN now
                                                                  ELSE speechStartTimeRef]_vars
    /\ [][speechStartTimeRef # 0
            => \/ speechStartTimeRef' = speechStartTimeRef
               \/ (speechStartTimeRef' = 0
                     /\ (handleAgentDone \/ handleInterrupt \/ cleanup \/ reset))]_vars

\* the second block of the turn arrived after the clock had advanced and audio
\* was accounted; the start of speech is still the time of the first block
C35_Witness ==
    /\ speechStartTimeRef = T0
    /\ now > T0
    /\ cumulativeAudioMsRef > 0
    /\ alignedCharCountRef = 2
    /\ \E t \in pendingTimersRef : t.charIndex = 1 /\ t.fireAt = now * MsScale

\* C37: within one session every audio chunk that onAudio delivers is handed
\* to the avatar's audio input stream exactly once and in the order of
\* arrival: what was sent followed by what is buffered is what arrived;
\* nothing is buffered once the avatar is ready; SESSION_READY sends the whole
\* buffer, in order, after what was sent before; and onAudio has every chunk
\* accounted once by the transcript engine.
C37_AudioPathInOrder ==
    /\ [](elevenlabs = "live" => sent \o audioBufferRef = arrived)
    /\ [](anamReadyRef => audioBufferRef = <<>>)
    /\ [][sessionReady => sent' \o audioBufferRef' = arrived]_vars
    /\ [][\A chunk \in AudioChunks :
            onAudio(chunk)
                => /\ cumulativeAudioMsRef' - cumulativeAudioMsRef = durationMs(chunk)
                   /\ arrived' = Append(arrived, chunk)
                   /\ (anamReadyRef /\ audioInputStreamRef) => sent' = Append(sent, chunk)]_vars

\* two chunks arrived before the avatar was ready and were flushed in order,
\* and a third one was sent after them, while the session is live
C37_Witness ==
    /\ elevenlabs = "live"
    /\ anamReadyRef
    /\ arrived = <<Pay(4, 0), Pay(6, 2), Pay(4, 0)>>
    /\ sent = arrived
    /\ cumulativeAudioMsRef = 3 * 4 + (3 * 8 - 4 * 2) + 3 * 4

\* C38: in the inline engine the streamed text is at every moment a prefix of
\* the text accumulated from the alignment blocks
C38_StreamedTextIsPrefix == PrefixOf(streamingTextRef, fullAgentTextRef)

====
